---- MODULE Spec2Model ----
(***************************************************************************)
(* WorktreeNode (src/src/webviews/home/protocol.ts): the lazily loaded,    *)
(* paginated commit log behind one tree node.                              *)
(*                                                                         *)
(* The node's state is the private field _log and the public field limit.  *)
(* getChildren(), loadMore() and refresh() are invoked by the presentation *)
(* layer; JavaScript runs each stretch of code between two awaits          *)
(* atomically, so every action below is one such stretch.  The calls that  *)
(* suspend are the git provider's getLog() (getLog, line 241) and the      *)
(* window's continuation more() (loadMore, line 265).                      *)
(*                                                                         *)
(* Not in the source file and modelled from the specification: the git     *)
(* provider (HistorySource), the gate decorator (SingleFlightGate) and     *)
(* insertDateMarkers.                                                      *)
(***************************************************************************)
EXTENDS Integers, Sequences, FiniteSets, TLC

\* ---------------------------------------------------------------- bounds
NumTasks == 2       \* calls of the presentation layer under way at once
MaxEntries == 5     \* history entries the source holds, at most
MaxLimit == 1       \* configured / requested page sizes, at most
MaxCalls == 3       \* HistorySource invocations in one run, at most
MaxResets == 1      \* refresh(reset = true) calls in one run, at most

\* view.config.defaultItemLimit (line 243) and view.config.pageItemLimit
\* (line 265), the configured sizes of the first window and of a page.
DefaultItemLimit == 2
PageItemLimit == 2

VARIABLES
    _log,       \* WorktreeNode._log: the cached window, NoLog when undefined
    limit,      \* WorktreeNode.limit: 0 when undefined
    gate,       \* the loadMore gate holds the promise of a call in flight
    task,       \* the calls under way or just finished: where each stands,
                \* and its locals
    cfg,        \* what the node is constructed over: n entries upstream, and
                \* the view's last known limit for the node (0: none)
    calls,      \* HistorySource invocations issued so far
    resets,     \* refresh(true) calls so far
    clean,      \* history so far is sequential, reset-free and fault-free
    expect,     \* entries the pagination arithmetic predicts (while clean)
    extended,   \* the first window followed by every batch fetched since,
                \* <<>> while no extend has succeeded since the last reset
    resident    \* a window has been installed since the last reset

vars == <<_log, limit, gate, task, cfg, calls, resets, clean, expect, extended,
          resident>>

Min(a, b) == IF a <= b THEN a ELSE b

\* ---------------------------------------------------------------- windows
\* A GitLog value.  ref is the object's identity (the serial number of the
\* invocation that built it), epoch the number of resets that had happened
\* when the data it holds was requested.
NoLog == [ref |-> 0, commits |-> <<>>, count |-> 0, hasMore |-> FALSE, epoch |-> 0]

IsNull(w) == w.ref = 0

\* HistorySource.fetch(ref, limit): the first min(limit, n) entries, newest
\* first; undefined when there is no history.
SourceGetLog(n, lim, ref, epoch) ==
    IF n = 0 THEN NoLog
    ELSE LET k == Min(lim, n)
         IN  [ref |-> ref, commits |-> [i \in 1..k |-> i], count |-> k,
              hasMore |-> k < n, epoch |-> epoch]

\* continuation.fetch(limit) of window w: the entries after w's last one, at
\* most lim of them, appended to w's entries in a new window.
SourceMore(n, w, lim, ref) ==
    LET last == IF Len(w.commits) = 0 THEN 0 ELSE w.commits[Len(w.commits)]
        k == Min(lim, n - last)
        batch == [i \in 1..k |-> last + i]
        all == w.commits \o batch
    IN  [ref |-> ref, commits |-> all, count |-> Len(all),
         hasMore |-> last + k < n, epoch |-> w.epoch]

\* ---------------------------------------------------------------- children
\* A child handle: kind, the entry (or day) it stands for, and for a
\* "load more" node the kind of the node it was given as its predecessor
\* ("none" when it was given undefined).
Node(kind, ref, prev) == [kind |-> kind, ref |-> ref, prev |-> prev]

MessageNode == Node("message", 0, "none")
UncommittedFilesNode == Node("uncommitted", 0, "none")
CommitNode(c) == Node("commit", c, "none")
LoadMoreNode(previous) == Node("loadMore", previous.ref, previous.kind)

\* The day an entry was committed on: entry 1 alone, then two entries a day.
Day(c) == c \div 2

\* insertDateMarkers: a marker node before every entry that falls on another
\* day than the entry before it.
RECURSIVE InsertDateMarkers(_, _)
InsertDateMarkers(commits, i) ==
    IF i > Len(commits) THEN <<>>
    ELSE (IF i > 1 /\ Day(commits[i]) # Day(commits[i - 1])
          THEN <<Node("marker", Day(commits[i]), "none")>>
          ELSE <<>>)
         \o <<CommitNode(commits[i])>> \o InsertDateMarkers(commits, i + 1)

\* getChildren() with the uncommitted node pushed last instead of first.
GetChildrenList_UncommittedLast(log, hasChanges) ==
    LET nodes == InsertDateMarkers(log.commits, 1)
        previous == IF Len(nodes) = 0 THEN Node("undefined", 0, "none")
                    ELSE nodes[Len(nodes)]
        paged == IF log.hasMore THEN Append(nodes, LoadMoreNode(previous))
                 ELSE nodes
    IN  IF hasChanges THEN Append(paged, UncommittedFilesNode) ELSE paged

\* getChildren() for a log (lines 66-85): markers and commits, a load-more
\* node, given the last child so far, pushed when hasMore, then an
\* uncommitted node spliced in at index 0 when the status has changes.
GetChildrenList(log, hasChanges) ==
    LET nodes == InsertDateMarkers(log.commits, 1)
        previous == IF Len(nodes) = 0 THEN Node("undefined", 0, "none")
                    ELSE nodes[Len(nodes)]
        paged == IF log.hasMore THEN Append(nodes, LoadMoreNode(previous))
                 ELSE nodes
    IN  IF hasChanges THEN <<UncommittedFilesNode>> \o paged ELSE paged

\* getChildren() without line 64: no log is treated as a log of no commits.
GetChildrenOf_NoPlaceholder(log, hasChanges) ==
    GetChildrenList(log, hasChanges)

\* getChildren() from line 64 on, given the awaited log and the worktree
\* status: a single message node when there is no log.
GetChildrenOf(log, hasChanges) ==
    IF IsNull(log) THEN <<MessageNode>>
    ELSE GetChildrenList(log, hasChanges)

\* ---------------------------------------------------------------- calls
\* A call of getChildren() or loadMore().  pc: where it stands; lim: the
\* limit its pending invocation was given; page: the page size its loadMore
\* will ask for; call: the invocation it awaits; lg: its local log; since:
\* the resets before its getLog() (kept by getChildren, and by loadMore
\* while its getLog() is pending); issued, wrote, notified: invocations,
\* stores to _log and triggerChange calls it has made so far; noMore: it is
\* a loadMore whose body was entered on a cached window with hasMore false;
\* fault: how the invocation it awaited failed ("none": it has not);
\* failed: the call threw.
NewCall == [pc |-> "new", op |-> "none", lim |-> 0, page |-> 0, call |-> 0,
            lg |-> NoLog, since |-> 0, issued |-> 0, wrote |-> 0, notified |-> 0,
            noMore |-> FALSE, fault |-> "none", failed |-> FALSE, hc |-> FALSE,
            children |-> <<>>]

\* The outcome of a finished call is what the state right after its last
\* step shows; the caller has taken it by the next step.
Live == {r \in task : r.pc # "done"}

\* The presentation layer can make another call.
Free == Cardinality(Live) < NumTasks

\* The call r is over: only its outcome is kept.
Done(r) == [r EXCEPT !.pc = "done", !.lim = 0, !.call = 0]

\* The rejection of the awaited invocation caught and the call returning.
Thrown_Swallowed(r) == Done(r)

\* An await rejects (lines 241, 265): nothing in the source catches it, so
\* the call rejects with it.
Thrown(r) == [Done(r) EXCEPT !.failed = TRUE]

\* Invocations that calls already under way may still issue: a loadMore that
\* awaits its log or holds a window with hasMore goes on to call more().
Reserved ==
    Cardinality({r \in Live : r.pc = "lm_fetch"
                              \/ (r.pc = "lm_log" /\ r.lg.hasMore)})

CanIssue(k) == calls + Reserved + k <= MaxCalls

\* The initial limit of the node, the page size p of the pagination
\* arithmetic.
PageSize == IF cfg.lastKnownLimit # 0 THEN cfg.lastKnownLimit
            ELSE DefaultItemLimit

Ghost(c, e) ==
    /\ clean' = c
    /\ expect' = IF c THEN e ELSE 0

\* The node after construction (lines 41-48, 238, 254): no log, limit the
\* view's last known limit for the node, no gate taken.
Init ==
    /\ cfg \in [n : 0..MaxEntries, lastKnownLimit : 0..MaxLimit]
    /\ _log = NoLog
    /\ limit = cfg.lastKnownLimit
    /\ gate = FALSE
    /\ task = {}
    /\ calls = 0
    /\ resets = 0
    /\ clean = TRUE
    /\ expect = Min(cfg.n, PageSize)
    /\ extended = <<>>
    /\ resident = FALSE

\* getLog() asking for the configured default whatever the node's limit is.
GetLogLimit_Default == DefaultItemLimit

\* getLog() up to its await (lines 239-244): the limit it asks the source for.
GetLogLimit == IF limit # 0 THEN limit ELSE DefaultItemLimit

\* this._log == null (line 240): getLog() has to invoke the source.
MustFetch == IsNull(_log)

\* A call that starts getLog() with no log cached and awaits the source.
Fetching(op, page, pc) ==
    [NewCall EXCEPT !.pc = pc, !.op = op, !.page = page, !.lim = GetLogLimit,
                    !.call = calls + 1, !.since = resets, !.issued = 1]

\* getChildren() finished with the log it awaited.
GotChildren(r, log, hasChanges) ==
    [Done(r) EXCEPT !.lg = log, !.hc = hasChanges,
                    !.children = GetChildrenOf(log, hasChanges)]

\* getChildren() (lines 62-86) up to the await of getLog(): with a log cached
\* getLog() returns it and the children are built from it; with none it
\* invokes the source.
GetChildrenCall ==
    /\ Free
    /\ IF MustFetch
       THEN /\ CanIssue(1)
            /\ calls' = calls + 1
            /\ task' = Live \cup {Fetching("getChildren", 0, "gc_fetch")}
       ELSE /\ calls' = calls
            /\ \E hasChanges \in BOOLEAN :
                 task' = Live \cup
                     {GotChildren([NewCall EXCEPT !.op = "getChildren", !.since = resets],
                                  _log, hasChanges)}
    /\ Ghost(clean /\ Live = {}, expect)
    /\ UNCHANGED <<_log, limit, gate, cfg, resets, extended, resident>>

\* Call r goes on as record q.
Step(r, q) == (Live \ {r}) \cup {q}

\* The gate's promise settles: call r ends as record q and every call
\* attached to it ends with it.
Settled(r, q) ==
    {IF x.pc = "lm_attached" THEN [Done(x) EXCEPT !.failed = q.failed] ELSE x :
        x \in Live \ {r}} \cup {q}

\* loadMore carries the gate decorator (line 255).
LoadMoreUngated == FALSE

LoadMoreGated == TRUE

\* The gate: a call made while an earlier call of the same method is in
\* flight gets that call's promise and does not run the body.
GateTaken == LoadMoreGated /\ gate

\* A gate that keeps the promise it holds after the promise has settled.
Release_Never == TRUE

\* What the gate holds once the promise of the call in flight has settled,
\* by return or by throw: nothing.
Release == FALSE

\* The cached window has nothing more to load.
NoMore == ~IsNull(_log) /\ ~_log.hasMore

\* The argument passed on as it is, without the configured default.
PageArg_NoDefault(arg) == arg

\* limit ?? pageItemLimit (line 265), 0 standing for an omitted argument.
PageArg(arg) == IF arg # 0 THEN arg ELSE PageItemLimit

\* loadMore(limit) (lines 255-262) up to the await of getLog(); the gate
\* comes first and does not look at the argument.
LoadMoreCall ==
    /\ Free
    /\ IF GateTaken
       THEN /\ task' = Live \cup
                 {[NewCall EXCEPT !.pc = "lm_attached", !.op = "attached"]}
            /\ Ghost(FALSE, 0)
            /\ UNCHANGED <<gate, calls>>
       ELSE \E arg \in 0..MaxLimit :
            /\ gate' = TRUE
            /\ IF MustFetch
               THEN /\ CanIssue(2)
                    /\ calls' = calls + 1
                    /\ task' = Live \cup {Fetching("loadMore", PageArg(arg), "lm_fetch")}
               ELSE /\ CanIssue(IF _log.hasMore THEN 1 ELSE 0)
                    /\ calls' = calls
                    /\ task' = Live \cup
                         {[NewCall EXCEPT !.pc = "lm_log", !.op = "loadMore",
                                          !.page = PageArg(arg), !.lg = _log,
                                          !.noMore = NoMore]}
            /\ Ghost(clean /\ Live = {}
                       /\ (IF arg # 0 THEN arg ELSE PageItemLimit) = PageSize,
                     expect)
    /\ UNCHANGED <<_log, limit, cfg, resets, extended, resident>>

\* getLog() after its await (lines 241-247): the source's answer is stored in
\* _log and returned; a failure of the source is thrown to the caller.
GetLogResolve(r) ==
    /\ r.pc \in {"gc_fetch", "lm_fetch"}
    /\ \E ok \in BOOLEAN :
        IF ok
        THEN LET w == SourceGetLog(cfg.n, r.lim, r.call, r.since)
                 q == [r EXCEPT !.wrote = 1]
             IN  /\ _log' = w
                 /\ resident' = (resident \/ ~IsNull(w))
                 /\ IF r.pc = "gc_fetch"
                    THEN \E hasChanges \in BOOLEAN :
                           task' = Step(r, GotChildren(q, w, hasChanges))
                    ELSE task' = Step(r, [q EXCEPT !.pc = "lm_log", !.lg = w,
                                                   !.lim = 0, !.call = 0,
                                                   !.since = 0])
                 /\ gate' = gate
                 /\ Ghost(clean, expect)
        ELSE /\ _log' = _log
             /\ resident' = resident
             /\ IF r.pc = "gc_fetch"
                THEN /\ task' = Step(r, [Thrown(r) EXCEPT !.fault = "failed"])
                     /\ gate' = gate
                ELSE /\ task' = Settled(r, [Thrown(r) EXCEPT !.fault = "failed"])
                     /\ gate' = Release
             /\ Ghost(FALSE, 0)
    /\ UNCHANGED <<limit, cfg, calls, resets, extended>>

\* Line 263 without the hasMore test.
NothingToLoad_NullOnly(log) == IsNull(log)

\* log == null || !log.hasMore (line 263).
NothingToLoad(log) == IsNull(log) \/ ~log.hasMore

\* loadMore() between its two awaits (lines 263-265): return when there is no
\* log or no more to load, else invoke the window's continuation.
LoadMoreBody(r) ==
    /\ r.pc = "lm_log"
    /\ IF NothingToLoad(r.lg)
       THEN /\ task' = Settled(r, Done(r))
            /\ gate' = Release
            /\ calls' = calls
            /\ Ghost(clean, Min(cfg.n, expect + PageSize))
       ELSE /\ task' = Step(r, [r EXCEPT !.pc = "lm_more", !.call = calls + 1,
                                         !.lim = r.page, !.issued = @ + 1])
            /\ gate' = gate
            /\ calls' = calls + 1
            /\ Ghost(clean, expect)
    /\ UNCHANGED <<_log, limit, cfg, resets, extended, resident>>

\* Line 266 never finding the answer to be the cached object.
SameObject_Never(a, b) == FALSE

\* this._log === log (line 266): the same object, or undefined both.
SameObject(a, b) == a.ref = b.ref

\* What the continuation can answer: the extended window, the very window it
\* was called on, nothing (also when the window has no continuation), or a
\* failure, of the source or because the continuation no longer applies.
MoreOutcomes == {"more", "same", "none", "failed", "stale"}

\* loadMore() after the await of more() (lines 265-271): return when the
\* answer is the cached object itself, else store it, take its count as the
\* limit and notify the view.
MoreResolve(r) ==
    /\ r.pc = "lm_more"
    /\ \E outcome \in MoreOutcomes :
        IF outcome \in {"failed", "stale"}
        THEN /\ task' = Settled(r, [Thrown(r) EXCEPT !.fault = outcome])
             /\ UNCHANGED <<_log, limit, extended, resident>>
             /\ Ghost(FALSE, 0)
        ELSE LET log == CASE outcome = "more" ->
                               SourceMore(cfg.n, r.lg, r.lim, r.call)
                          [] outcome = "same" -> r.lg
                          [] outcome = "none" -> NoLog
             IN  /\ IF SameObject(_log, log)
                    THEN /\ task' = Settled(r, Done(r))
                         /\ UNCHANGED <<_log, limit, extended, resident>>
                    ELSE /\ _log' = log
                         /\ limit' = log.count
                         /\ resident' = (resident \/ ~IsNull(log))
                         /\ extended' =
                              IF outcome # "more" THEN extended
                              ELSE (IF extended = <<>> THEN r.lg.commits
                                    ELSE extended)
                                   \o SubSeq(log.commits, Len(r.lg.commits) + 1,
                                             Len(log.commits))
                         /\ task' = Settled(r, [Done(r) EXCEPT
                                                  !.wrote = @ + 1, !.notified = @ + 1])
                 /\ Ghost(clean /\ outcome = "more", Min(cfg.n, expect + PageSize))
    /\ gate' = Release
    /\ UNCHANGED <<cfg, calls, resets>>

\* refresh(reset) (lines 230-236): synchronous, so the gate on it never holds
\* a promise; reset drops the cached log and nothing else.
Refresh(reset) ==
    /\ reset => resets < MaxResets
    /\ _log' = IF reset THEN NoLog ELSE _log
    /\ resets' = IF reset THEN resets + 1 ELSE resets
    /\ extended' = IF reset THEN <<>> ELSE extended
    /\ resident' = (resident /\ ~reset)
    /\ Ghost(clean /\ ~reset, expect)
    /\ task' = Live
    /\ UNCHANGED <<limit, gate, cfg, calls>>

Next ==
    \/ GetChildrenCall
    \/ LoadMoreCall
    \/ \E r \in task : GetLogResolve(r)
    \/ \E r \in task : LoadMoreBody(r)
    \/ \E r \in task : MoreResolve(r)
    \/ \E reset \in BOOLEAN : Refresh(reset)

Spec == Init /\ [][Next]_vars

\* Every invocation of the source resolves or fails, and a continuation of
\* a call that is ready to run is run by the event loop.
Fairness ==
    /\ WF_vars(\E r \in task : GetLogResolve(r))
    /\ WF_vars(\E r \in task : LoadMoreBody(r))
    /\ WF_vars(\E r \in task : MoreResolve(r))

FairSpec == Spec /\ Fairness

\* ================================================================ claims
IsCommit(x) == x.kind = "commit"
IsLoadMore(x) == x.kind = "loadMore"
IsUncommitted(x) == x.kind = "uncommitted"

\* The entries of the commit nodes of a child list, in order.
Entries(ch) ==
    LET cs == SelectSeq(ch, IsCommit) IN [i \in 1..Len(cs) |-> cs[i].ref]

\* Call t has just returned the children of a getChildren() that did not throw.
GotResult(t) ==
    t.pc = "done" /\ t.op = "getChildren" /\ ~t.failed

InFlight == {t \in task : t.pc \in {"gc_fetch", "lm_fetch", "lm_more"}}

\* C1: getChildren() calls that overlap on an empty cache share one fetch:
\* callers that await the source at the same time await the same invocation.
C1_SingleFlightInitialLoad ==
    \A t, u \in task :
        t.pc = "gc_fetch" /\ u.pc = "gc_fetch"
            => t.call = u.call

\* C2: a getChildren() that starts after refresh(true) returns children built
\* from a fetch issued after that reset.
C2_FreshAfterReset ==
    \A t \in task :
        GotResult(t) /\ t.since > 0 /\ ~IsNull(t.lg)
            => t.lg.epoch >= t.since

\* C3: the result of a fetch or extend that was in flight at a reset is never
\* installed: a cached window was requested after the last reset.
C3_StaleNeverCommitted ==
    ~IsNull(_log) => _log.epoch = resets

\* C4: with no reset in between, after any number of successful extends the
\* cached entries are the first window followed by each fetched batch.
C4_MonotonicGrowth ==
    extended # <<>> => _log.commits = extended

\* C5: a loadMore() called on a cached window with hasMore false invokes
\* nothing, stores nothing and notifies nothing, and its return leaves the
\* log, the limit and the invocation count as they were.
C5_NoMoreGuard ==
    /\ [](\A t \in task :
            t.noMore =>
                /\ t.pc \in {"lm_log", "lm_attached", "done"}
                /\ t.issued = 0
                /\ t.wrote = 0
                /\ t.notified = 0)
    /\ [][\A t \in task :
            t.pc = "lm_log" /\ t.noMore /\ t \notin task'
                => /\ \E q \in task' : q = [t EXCEPT !.pc = "done"]
                   /\ UNCHANGED <<_log, limit, calls>>]_vars

C5_Witness ==
    \E t \in task :
        /\ t.pc = "done" /\ t.op = "loadMore" /\ t.noMore
        /\ ~IsNull(_log) /\ ~_log.hasMore

\* C6: when the source has no history, getChildren() returns exactly the
\* message node, whatever the worktree status says.
C6_Placeholder ==
    \A t \in task :
        GotResult(t) /\ (cfg.n = 0 \/ IsNull(t.lg))
            => t.children = <<MessageNode>>

C6_Witness ==
    \E t \in task :
        GotResult(t) /\ cfg.n = 0 /\ t.hc /\ t.issued = 1

\* C7: in a sequential run with first limit and page size p over n entries,
\* getChildren() shows min(n, p * (1 + loadMores so far)) entries, the first
\* ones, and a load-more node exactly while that is fewer than n.
C7_Pagination ==
    \A t \in task :
        GotResult(t) /\ clean =>
            /\ Entries(t.children) = [i \in 1..expect |-> i]
            /\ Len(SelectSeq(t.children, IsLoadMore))
                 = (IF expect < cfg.n THEN 1 ELSE 0)
            /\ ~IsNull(t.lg) => t.lg.hasMore = (expect < cfg.n)

\* p = 2, n = 5, after two loadMore(): 5 entries, no load-more node.
C7_Witness ==
    \E t \in task :
        /\ GotResult(t) /\ clean /\ cfg.n = 5 /\ PageSize = 2
        /\ Entries(t.children) = <<1, 2, 3, 4, 5>>
        /\ Len(SelectSeq(t.children, IsLoadMore)) = 0
        /\ ~t.lg.hasMore
        /\ calls = 3

\* C8: for a log, getChildren() returns the uncommitted node first iff the
\* status has changes, the entries in window order, and one load-more node
\* last iff hasMore, which refers to the last entry.
C8_ChildOrder ==
    \A t \in task :
        GotResult(t) /\ ~IsNull(t.lg) =>
            LET ch == t.children
                w == t.lg
            IN  /\ Len(ch) > 0
                /\ Entries(ch) = w.commits
                /\ IsUncommitted(ch[1]) = t.hc
                /\ Len(SelectSeq(ch, IsUncommitted)) = (IF t.hc THEN 1 ELSE 0)
                /\ IsLoadMore(ch[Len(ch)]) = w.hasMore
                /\ Len(SelectSeq(ch, IsLoadMore)) = (IF w.hasMore THEN 1 ELSE 0)
                /\ \A i \in 1..Len(ch) :
                     /\ ch[i].kind \in {"uncommitted", "marker", "commit", "loadMore"}
                     /\ IsLoadMore(ch[i]) =>
                          ch[i].prev = "commit" /\ ch[i].ref = w.commits[Len(w.commits)]
                /\ (t.hc /\ Len(w.commits) = 1 /\ ~w.hasMore)
                     => ch = <<UncommittedFilesNode, CommitNode(w.commits[1])>>

C8_Witness ==
    \E t \in task :
        /\ GotResult(t) /\ t.hc
        /\ Len(t.lg.commits) = 1 /\ ~t.lg.hasMore /\ ~IsNull(t.lg)
        /\ Len(t.children) = 2

\* C9: at most one invocation of the source (first fetch or continuation) is
\* unresolved at any time.
C9_AtMostOneInFlight ==
    Cardinality(InFlight) <= 1

\* C10: a loadMore() called while another is in flight runs no body of its
\* own and invokes nothing, and when both have settled on an extended window
\* that window is the first call's window plus exactly one page.
C10_ExtendDeduplicated ==
    /\ Cardinality({t \in task : t.pc \in {"lm_fetch", "lm_log", "lm_more"}}) <= 1
    /\ \A u \in task :
         u.op = "attached" => u.issued = 0 /\ u.wrote = 0
    /\ \A t, u \in task :
         ( /\ t.pc = "done" /\ t.op = "loadMore" /\ t.notified = 1
           /\ u.pc = "done" /\ u.op = "attached"
           /\ ~IsNull(_log) /\ _log.ref # t.lg.ref )
         => LET had == Len(t.lg.commits)
                k == Min(t.page, cfg.n - had)
            IN  /\ k >= 1
                /\ _log.commits = t.lg.commits \o [i \in 1..k |-> had + i]
                /\ _log.count = had + k
                /\ limit = had + k

C10_Witness ==
    \E t, u \in task :
        /\ t.pc = "done" /\ t.op = "loadMore" /\ t.notified = 1
        /\ u.pc = "done" /\ u.op = "attached"
        /\ ~IsNull(_log) /\ _log.ref # t.lg.ref

C12_StaleForcesInvalidation ==
    \A t \in task : t.fault = "stale" => IsNull(_log)

\* C13: the cached log goes from a window to nothing only by refresh(true);
\* refresh(false) changes neither the log nor the limit and invokes nothing.
C13_OnlyResetClears ==
    [][/\ ~IsNull(_log) /\ IsNull(_log') => resets' = resets + 1
       /\ resets' = resets /\ task' = Live /\ calls' = calls
            => _log' = _log /\ limit' = limit]_vars

\* C14: a loadMore() that replaces the window sets the limit to the new
\* window's count, notifies once and invokes nothing on that step; nothing
\* else changes the limit; and every first fetch, so also the one of a
\* getChildren() after refresh(true), asks the source for that limit.
C14_LimitTracksTotal ==
    /\ [](\A t \in task :
            t.pc = "done" /\ t.op = "loadMore" /\ t.notified = 1
                => limit = _log.count)
    /\ [][/\ \A q \in task' \ task :
               q.pc = "done" /\ q.op = "loadMore" /\ q.notified = 1
                   => calls' = calls
          /\ limit' # limit =>
               \E q \in task' \ task :
                   q.pc = "done" /\ q.op = "loadMore" /\ q.notified = 1
          /\ \A q \in task' \ task :
               q.pc \in {"gc_fetch", "lm_fetch"} =>
                   q.lim = (IF limit # 0 THEN limit ELSE DefaultItemLimit)]_vars

\* After a loadMore() grew the window beyond the first page and a
\* refresh(true), getChildren() has fetched a window of that total.
C14_Witness ==
    \E t \in task :
        /\ GotResult(t) /\ t.issued = 1 /\ t.since = 1 /\ t.lg.epoch = 1
        /\ t.lg.count = limit /\ limit > PageSize /\ limit > DefaultItemLimit

\* C15: once a window has been installed and until the next refresh(true),
\* a getChildren() called with nothing else in flight returns at once with
\* children built from the cached window, invoking nothing.
C15_NoRefetch ==
    [][resident /\ Live = {} =>
         \A q \in task' \ task :
             q.op = "getChildren" =>
                 /\ q.pc = "done" /\ q.issued = 0
                 /\ calls' = calls /\ _log' = _log
                 /\ q.children = GetChildrenList(_log, q.hc)]_vars

\* C16: after a first fetch has completed with the source reporting no
\* history, the next getChildren() or loadMore(), with no refresh(true) in
\* between, does not invoke the source.
C16_NullIsLoaded ==
    [][(\E t \in task :
            /\ t.pc = "done" /\ ~t.failed /\ t.wrote = 1 /\ IsNull(t.lg)
            /\ t.op \in {"getChildren", "loadMore"})
         => \A q \in task' \ task :
                q.pc \notin {"gc_fetch", "lm_fetch"}]_vars

\* C17: a loadMore() whose continuation answers the cached object itself
\* leaves the log and the limit as they are and notifies nothing; a
\* loadMore() notifies exactly when it replaces the cached log, and then
\* once; nothing else notifies.
C17_DegenerateExtend ==
    /\ [](\A t \in task :
            /\ t.notified \in {0, 1}
            /\ t.notified = 1 => t.pc = "done" /\ t.op = "loadMore" /\ ~t.failed)
    /\ [][\A q \in task' \ task :
            q.pc = "done" /\ q.op = "loadMore" =>
                /\ q.notified = 0 => _log' = _log /\ limit' = limit
                /\ q.notified = 1 => _log'.ref # _log.ref
                /\ _log'.ref # _log.ref => q.notified = 1]_vars

\* A loadMore() that called the continuation of the cached window has
\* returned without a notification, that window still being the cached one.
C17_Witness ==
    \E t \in task :
        /\ t.pc = "done" /\ t.op = "loadMore" /\ ~t.failed /\ t.notified = 0
        /\ ~IsNull(t.lg) /\ t.lg.hasMore /\ _log = t.lg
        /\ limit = cfg.lastKnownLimit

\* C18: between two resets the cached window never gets shorter: a step
\* other than refresh(true) that leaves a window cached leaves at least as
\* many entries as there were.
C18_NoLostUpdate ==
    [][resets' = resets /\ ~IsNull(_log')
         => Len(_log'.commits) >= Len(_log.commits)]_vars

\* A loadMore() body is under way.
OwnerLive == \E t \in task : t.pc \in {"lm_fetch", "lm_log", "lm_more"}

====
